---- MODULE Spec2Model ----
(***************************************************************************)
(* A model of the slot-based inventory engine of game_features             *)
(* (src/src/inventory.rs): the slot array `content`, its sizing and        *)
(* compaction policies and every mutating operation.                       *)
(*                                                                         *)
(* Option<T> is modelled as a sequence of length at most one: NONE is the  *)
(* empty sequence and Some(x) is <<x>>.  Slot indices are 0-based as in    *)
(* the code; content[i + 1] is the slot with index i.                      *)
(*                                                                         *)
(* A panic, an arithmetic underflow of a usize (a panic in a build with    *)
(* overflow checks, a wrapped value otherwise) and a reached               *)
(* unreachable!() are faults: the operation's result has tag "Fault", the  *)
(* inventory keeps what the operation had written before the fault, and    *)
(* the model stops there.                                                  *)
(***************************************************************************)
EXTENDS Integers, Sequences, FiniteSets, TLC

VARIABLES inv, target, last, unlockables

vars == <<inv, target, last, unlockables>>

----------------------------------------------------------------------------
(* Bounds of the model. *)

\* Largest slot count of an inventory (Fixed size, Dynamic max_size).
MaxSize == 3

\* Largest quantity of a caller-supplied stack and of a quantity argument.
MaxQty == 2

\* maximum_stack of the stackable item definition of the catalog.
MaxStack == 2

\* Largest durability of a caller-supplied stack.
MaxDur == 2

\* Number of unlockables held, and largest inner value of an unlockable.
MaxUnlockables == 3

MaxInner == 1

\* Largest number of items an inventory holds when a key has no stack cap.
MaxTotal == 5

----------------------------------------------------------------------------
(* Option, results. *)

NONE == << >>

Some(x) == <<x>>

is_some(o) == o # NONE

is_none(o) == o = NONE

unwrap(o) == o[1]

Ok(v) == [tag |-> "Ok", err |-> "", val |-> v]

Err(e) == [tag |-> "Err", err |-> e, val |-> NONE]

\* An error variant that carries a stack: ItemDestroyed(stack), StackConsumed(stack).
ErrWith(e, v) == [tag |-> "Err", err |-> e, val |-> v]

\* kind is "panic", "underflow" or "unreachable".
Fault(kind) == [tag |-> "Fault", err |-> kind, val |-> NONE]

Min(a, b) == IF a <= b THEN a ELSE b

----------------------------------------------------------------------------
(* The catalog and the stacks. *)

Keys == {1, 2}

\* U::default(), the user data of a stack built by ItemInstance::new.
DefaultUserData == 0

\* The catalog (ItemDefinitions) of the runs: key 1 stacks up to MaxStack; key 2
\* is a tool, which does not stack (maximum_stack = 1) and tracks durability.
\* Key 1 is of item type Consumable, key 2 of item type Weapon.
Catalog == [k \in Keys |-> [key |-> k,
                            slot_type |-> IF k = 1 THEN "Consumable" ELSE "Weapon",
                            maximum_stack |-> IF k = 1 THEN Some(MaxStack) ELSE Some(1)]]

\* SlotType::can_insert_into(item_type) of a slot type: a Regular slot takes every
\* item type, an Equipment slot takes Weapon and Armor.
can_insert_into(self, item_type) ==
    IF self = "Regular" THEN TRUE ELSE item_type \in {"Weapon", "Armor"}

\* ItemInstance::new(key, quantity): durability and user_data take their defaults.
ItemInstance_new(key, quantity) ==
    [key |-> key, quantity |-> quantity, durability |-> NONE,
     user_data |-> DefaultUserData]

MoveToFrontMode == {"None", "TakeLast", "Offset"}

new_fixed_sizing(size) == [kind |-> "Fixed", size |-> size]

new_dynamic_sizing(min_size, max_size) ==
    [kind |-> "Dynamic", min_size |-> min_size, max_size |-> max_size]

\* Inventory::new_fixed(count); move_to_front is a public field, set by the caller.
new_fixed(count, mtf) ==
    [content |-> [i \in 1..count |-> NONE],
     slot_restriction |-> [i \in 1..count |-> NONE],
     move_to_front |-> mtf,
     sizing_mode |-> new_fixed_sizing(count)]

\* Inventory::new_dynamic(minimum, maximum).
new_dynamic(minimum, maximum, mtf) ==
    [content |-> [i \in 1..minimum |-> NONE],
     slot_restriction |-> << >>,
     move_to_front |-> mtf,
     sizing_mode |-> new_dynamic_sizing(minimum, maximum)]

----------------------------------------------------------------------------
(* Unlockable (src/src/unlock.rs): a value behind a lock flag.  The condition *)
(* lists of an Unlockable are empty after new() and no method reads them.     *)

\* Unlockable::new(id, inner, is_unlocked).
Unlockable_new(id, inner, is_unlocked) ==
    [id |-> id, inner |-> inner, is_unlocked |-> is_unlocked]

\* Unlockable::try_get().
try_get(self) == IF self.is_unlocked THEN Some(self.inner) ELSE NONE

\* Unlockable::set(new).
set(self, new) == [self EXCEPT !.inner = new]

\* Unlockable::lock().
lock(self) == [self EXCEPT !.is_unlocked = TRUE]

\* Unlockable::unlock().
unlock(self) == [self EXCEPT !.is_unlocked = FALSE]

\* Unlockable::is_unlocked().
is_unlocked(self) == self.is_unlocked

\* Unlockables::default(): no unlockable.
Unlockables_default == << >>

----------------------------------------------------------------------------
(* Vec operations on content. *)

\* Vec::get(idx): NONE out of range, Some(slot) otherwise.
content_get(content, idx) ==
    IF idx >= 0 /\ idx < Len(content) THEN Some(content[idx + 1]) ELSE NONE

\* The pattern Some(Some(ii)) = self.content.get(idx).
occupied_at(content, idx) ==
    is_some(content_get(content, idx)) /\ is_some(unwrap(content_get(content, idx)))

\* swap_remove that shifts the later elements left, as Vec::remove does.
swap_remove_shifting(content, idx) ==
    [i \in 1..(Len(content) - 1) |-> IF i < idx + 1 THEN content[i] ELSE content[i + 1]]

\* Vec::swap_remove(idx): the last element takes the place of the removed one.
swap_remove(content, idx) ==
    LET n == Len(content)
    IN  [i \in 1..(n - 1) |-> IF i = idx + 1 THEN content[n] ELSE content[i]]

\* Vec::remove that moves the last element into the gap, as swap_remove does.
vec_remove_swapping(content, idx) ==
    LET n == Len(content)
    IN  [i \in 1..(n - 1) |-> IF i = idx + 1 THEN content[n] ELSE content[i]]

\* Vec::remove(idx): every later element shifts left by one.
vec_remove(content, idx) ==
    [i \in 1..(Len(content) - 1) |-> IF i < idx + 1 THEN content[i] ELSE content[i + 1]]

\* Sum of the quantities of the occupied slots holding key.
RECURSIVE sum_key(_, _)
sum_key(content, key) ==
    IF content = << >> THEN 0
    ELSE LET s == Head(content)
         IN  (IF is_some(s) /\ unwrap(s).key = key THEN unwrap(s).quantity ELSE 0)
             + sum_key(Tail(content), key)

----------------------------------------------------------------------------
(* Inventory operations.  Each returns [inv |-> inventory after, res |-> result]. *)

\* remove_slot without the `self.content.push(None)` of the compacting modes.
remove_slot_no_push(self, idx) ==
    CASE self.move_to_front = "None" ->
            IF is_some(content_get(self.content, idx))
            THEN [self EXCEPT !.content[idx + 1] = NONE]
            ELSE self
      [] self.move_to_front = "TakeLast" ->
            [self EXCEPT !.content = swap_remove(self.content, idx)]
      [] self.move_to_front = "Offset" ->
            [self EXCEPT !.content = vec_remove(self.content, idx)]

\* remove_slot whose None arm closes the gap by shifting, as the Offset arm does.
remove_slot_compacting(self, idx) ==
    CASE self.move_to_front = "None" ->
            [self EXCEPT !.content = Append(vec_remove(self.content, idx), NONE)]
      [] self.move_to_front = "TakeLast" ->
            [self EXCEPT !.content = Append(swap_remove(self.content, idx), NONE)]
      [] self.move_to_front = "Offset" ->
            [self EXCEPT !.content = Append(vec_remove(self.content, idx), NONE)]

\* Inventory::remove_slot(idx); delete calls it on an existing slot only.
remove_slot(self, idx) ==
    CASE self.move_to_front = "None" ->
            IF is_some(content_get(self.content, idx))
            THEN [self EXCEPT !.content[idx + 1] = NONE]
            ELSE self
      [] self.move_to_front = "TakeLast" ->
            [self EXCEPT !.content = Append(swap_remove(self.content, idx), NONE)]
      [] self.move_to_front = "Offset" ->
            [self EXCEPT !.content = Append(vec_remove(self.content, idx), NONE)]

\* delete without `ret.durability = ii.durability.clone()`.
delete_drop_durability(self, idx, quantity) ==
    IF occupied_at(self.content, idx)
    THEN LET ii == self.content[idx + 1][1]
         IN  IF ii.quantity >= quantity
             THEN LET left == ii.quantity - quantity
                      cut  == [self EXCEPT !.content[idx + 1][1].quantity = left]
                  IN  [inv |-> IF left = 0 THEN remove_slot(cut, idx) ELSE cut,
                       res |-> Ok(ItemInstance_new(ii.key, quantity))]
             ELSE [inv |-> self, res |-> Err("NotEnoughQuantity")]
    ELSE [inv |-> self, res |-> Err("SlotEmpty")]

\* delete without `self.remove_slot(idx)`: a drained stack stays in its slot.
delete_no_remove(self, idx, quantity) ==
    IF occupied_at(self.content, idx)
    THEN LET ii == self.content[idx + 1][1]
         IN  IF ii.quantity >= quantity
             THEN [inv |-> [self EXCEPT !.content[idx + 1][1].quantity = ii.quantity - quantity],
                   res |-> Ok([ItemInstance_new(ii.key, quantity)
                                 EXCEPT !.durability = ii.durability])]
             ELSE [inv |-> self, res |-> Err("NotEnoughQuantity")]
    ELSE [inv |-> self, res |-> Err("SlotEmpty")]

\* delete that empties the slot before it reports NotEnoughQuantity.
delete_partial(self, idx, quantity) ==
    IF occupied_at(self.content, idx)
    THEN LET ii == self.content[idx + 1][1]
         IN  IF ii.quantity >= quantity
             THEN LET left == ii.quantity - quantity
                      ret  == [ItemInstance_new(ii.key, quantity)
                                 EXCEPT !.durability = ii.durability]
                      cut  == [self EXCEPT !.content[idx + 1][1].quantity = left]
                  IN  [inv |-> IF left = 0 THEN remove_slot(cut, idx) ELSE cut,
                       res |-> Ok(ret)]
             ELSE [inv |-> remove_slot(self, idx), res |-> Err("NotEnoughQuantity")]
    ELSE [inv |-> self, res |-> Err("SlotEmpty")]

\* delete that hands the user data of the source stack to the stack it returns.
delete_keep_user_data(self, idx, quantity) ==
    IF occupied_at(self.content, idx)
    THEN LET ii == self.content[idx + 1][1]
         IN  IF ii.quantity >= quantity
             THEN LET left == ii.quantity - quantity
                      ret  == [ItemInstance_new(ii.key, quantity)
                                 EXCEPT !.durability = ii.durability,
                                        !.user_data = ii.user_data]
                      cut  == [self EXCEPT !.content[idx + 1][1].quantity = left]
                  IN  [inv |-> IF left = 0 THEN remove_slot(cut, idx) ELSE cut,
                       res |-> Ok(ret)]
             ELSE [inv |-> self, res |-> Err("NotEnoughQuantity")]
    ELSE [inv |-> self, res |-> Err("SlotEmpty")]

\* Inventory::delete(idx, quantity).
delete(self, idx, quantity) ==
    IF occupied_at(self.content, idx)
    THEN LET ii == self.content[idx + 1][1]
         IN  IF ii.quantity >= quantity
             THEN LET left == ii.quantity - quantity
                      ret  == [ItemInstance_new(ii.key, quantity)
                                 EXCEPT !.durability = ii.durability]
                      cut  == [self EXCEPT !.content[idx + 1][1].quantity = left]
                  IN  [inv |-> IF left = 0 THEN remove_slot(cut, idx) ELSE cut,
                       res |-> Ok(ret)]
             ELSE [inv |-> self, res |-> Err("NotEnoughQuantity")]
    ELSE [inv |-> self, res |-> Err("SlotEmpty")]

\* delete_stack that deletes one unit of the stack.
delete_stack_one_unit(self, idx) ==
    IF occupied_at(self.content, idx)
    THEN delete(self, idx, 1)
    ELSE [inv |-> self, res |-> Err("SlotEmpty")]

\* Inventory::delete_stack(idx).
delete_stack(self, idx) ==
    IF occupied_at(self.content, idx)
    THEN delete(self, idx, self.content[idx + 1][1].quantity)
    ELSE [inv |-> self, res |-> Err("SlotEmpty")]

\* has_quantity with `>` for `>=`.
has_quantity_strict(self, key, quantity) == sum_key(self.content, key) > quantity

\* Inventory::has_quantity(key, quantity).
has_quantity(self, key, quantity) == sum_key(self.content, key) >= quantity

\* has_space with `<=` for `!=` in the Dynamic arm: one slot too many.
has_space_off_by_one(self) ==
    IF self.sizing_mode.kind = "Fixed"
    THEN \E i \in 1..Len(self.content) : is_none(self.content[i])
    ELSE Len(self.content) <= self.sizing_mode.max_size

\* Inventory::has_space().
has_space(self) ==
    IF self.sizing_mode.kind = "Fixed"
    THEN \E i \in 1..Len(self.content) : is_none(self.content[i])
    ELSE Len(self.content) # self.sizing_mode.max_size

\* use_item that breaks the item on the use that brings its durability to 0.
use_item_breaks_early(self, idx) ==
    IF occupied_at(self.content, idx)
    THEN LET ii == self.content[idx + 1][1]
         IN  IF is_some(ii.durability)
             THEN IF unwrap(ii.durability) <= 1
                  THEN LET d == delete_stack(self, idx)
                       IN  IF d.res.tag = "Ok"
                           THEN [inv |-> d.inv, res |-> ErrWith("ItemDestroyed", d.res.val)]
                           ELSE d
                  ELSE LET nd == unwrap(ii.durability) - 1
                       IN  [inv |-> [self EXCEPT !.content[idx + 1][1].durability = Some(nd)],
                            res |-> Ok(Some(nd))]
             ELSE [inv |-> self, res |-> Ok(NONE)]
    ELSE [inv |-> self, res |-> Err("SlotEmpty")]

\* use_item that takes a unit off a stack without durability tracking.
use_item_consuming(self, idx) ==
    IF occupied_at(self.content, idx)
    THEN LET ii == self.content[idx + 1][1]
         IN  IF is_some(ii.durability)
             THEN IF unwrap(ii.durability) = 0
                  THEN LET d == delete_stack(self, idx)
                       IN  IF d.res.tag = "Ok"
                           THEN [inv |-> d.inv, res |-> ErrWith("ItemDestroyed", d.res.val)]
                           ELSE d
                  ELSE LET nd == unwrap(ii.durability) - 1
                       IN  [inv |-> [self EXCEPT !.content[idx + 1][1].durability = Some(nd)],
                            res |-> Ok(Some(nd))]
             ELSE [inv |-> [self EXCEPT !.content[idx + 1][1].quantity =
                                          IF ii.quantity > 1 THEN ii.quantity - 1
                                          ELSE ii.quantity],
                   res |-> Ok(NONE)]
    ELSE [inv |-> self, res |-> Err("SlotEmpty")]

\* use_item that lowers the durability first and destroys the stack as soon as the
\* durability is 0.
use_item_breaks_on_zero(self, idx) ==
    IF occupied_at(self.content, idx)
    THEN LET ii == self.content[idx + 1][1]
         IN  IF is_some(ii.durability)
             THEN LET nd  == IF unwrap(ii.durability) = 0 THEN 0
                             ELSE unwrap(ii.durability) - 1
                      dec == [self EXCEPT !.content[idx + 1][1].durability = Some(nd)]
                  IN  IF nd = 0
                      THEN LET d == delete_stack(dec, idx)
                           IN  IF d.res.tag = "Ok"
                               THEN [inv |-> d.inv,
                                     res |-> ErrWith("ItemDestroyed", d.res.val)]
                               ELSE d
                      ELSE [inv |-> dec, res |-> Ok(Some(nd))]
             ELSE [inv |-> self, res |-> Ok(NONE)]
    ELSE [inv |-> self, res |-> Err("SlotEmpty")]

\* use_item that reports a broken item and leaves its stack in the slot.
use_item_keeps_broken(self, idx) ==
    IF occupied_at(self.content, idx)
    THEN LET ii == self.content[idx + 1][1]
         IN  IF is_some(ii.durability)
             THEN IF unwrap(ii.durability) = 0
                  THEN [inv |-> self, res |-> ErrWith("ItemDestroyed", ii)]
                  ELSE LET nd == unwrap(ii.durability) - 1
                       IN  [inv |-> [self EXCEPT !.content[idx + 1][1].durability = Some(nd)],
                            res |-> Ok(Some(nd))]
             ELSE [inv |-> self, res |-> Ok(NONE)]
    ELSE [inv |-> self, res |-> Err("SlotEmpty")]

\* Inventory::use_item(idx).
use_item(self, idx) ==
    IF occupied_at(self.content, idx)
    THEN LET ii == self.content[idx + 1][1]
         IN  IF is_some(ii.durability)
             THEN IF unwrap(ii.durability) = 0
                  THEN LET d == delete_stack(self, idx)
                       IN  IF d.res.tag = "Ok"
                           THEN [inv |-> d.inv, res |-> ErrWith("ItemDestroyed", d.res.val)]
                           ELSE d
                  ELSE LET nd == unwrap(ii.durability) - 1
                       IN  [inv |-> [self EXCEPT !.content[idx + 1][1].durability = Some(nd)],
                            res |-> Ok(Some(nd))]
             ELSE [inv |-> self, res |-> Ok(NONE)]
    ELSE [inv |-> self, res |-> Err("SlotEmpty")]

\* consume that reports StackConsumed one unit early, on the last unit left.
consume_one_early(self, idx) ==
    IF occupied_at(self.content, idx)
    THEN LET ii == self.content[idx + 1][1]
         IN  IF ii.quantity = 0
             THEN [inv |-> self, res |-> Fault("underflow")]
             ELSE LET dec == [self EXCEPT !.content[idx + 1][1].quantity = ii.quantity - 1]
                  IN  IF ii.quantity - 1 <= 1
                      THEN LET d == delete_stack(dec, idx)
                           IN  IF d.res.tag = "Ok"
                               THEN [inv |-> d.inv,
                                     res |-> ErrWith("StackConsumed", d.res.val)]
                               ELSE d
                      ELSE [inv |-> dec, res |-> Ok(ii.quantity - 1)]
    ELSE [inv |-> self, res |-> Err("SlotEmpty")]

\* consume that takes the stack out of its slot before it counts the unit off.
consume_extract_first(self, idx) ==
    IF occupied_at(self.content, idx)
    THEN LET ii == self.content[idx + 1][1]
         IN  IF ii.quantity = 0
             THEN [inv |-> self, res |-> Fault("underflow")]
             ELSE IF ii.quantity - 1 = 0
                  THEN LET d == delete_stack(self, idx)
                       IN  IF d.res.tag = "Ok"
                           THEN [inv |-> d.inv,
                                 res |-> ErrWith("StackConsumed", d.res.val)]
                           ELSE d
                  ELSE [inv |-> [self EXCEPT !.content[idx + 1][1].quantity =
                                               ii.quantity - 1],
                        res |-> Ok(ii.quantity - 1)]
    ELSE [inv |-> self, res |-> Err("SlotEmpty")]

\* Inventory::consume(idx).  `ii.quantity -= 1` underflows on a stack of quantity 0.
consume(self, idx) ==
    IF occupied_at(self.content, idx)
    THEN LET ii == self.content[idx + 1][1]
         IN  IF ii.quantity = 0
             THEN [inv |-> self, res |-> Fault("underflow")]
             ELSE LET dec == [self EXCEPT !.content[idx + 1][1].quantity = ii.quantity - 1]
                  IN  IF ii.quantity - 1 = 0
                      THEN LET d == delete_stack(dec, idx)
                           IN  IF d.res.tag = "Ok"
                               THEN [inv |-> d.inv,
                                     res |-> ErrWith("StackConsumed", d.res.val)]
                               ELSE d
                      ELSE [inv |-> dec, res |-> Ok(ii.quantity - 1)]
    ELSE [inv |-> self, res |-> Err("SlotEmpty")]

\* insert_into that adds the incoming quantity to a resident stack of the same key.
insert_into_merging(self, idx, item) ==
    LET opt == content_get(self.content, idx)
    IN  IF is_some(opt)
        THEN IF is_some(unwrap(opt))
             THEN IF unwrap(unwrap(opt)).key = item.key
                  THEN [inv |-> [self EXCEPT !.content[idx + 1][1].quantity = @ + item.quantity],
                        res |-> Ok(NONE)]
                  ELSE [inv |-> self, res |-> Err("SlotOccupied")]
             ELSE [inv |-> [self EXCEPT !.content[idx + 1] = Some(item)],
                   res |-> Ok(NONE)]
        ELSE [inv |-> self, res |-> Fault("panic")]

\* insert_into that returns SlotOccupied for an index past the end.
insert_into_no_panic(self, idx, item) ==
    LET opt == content_get(self.content, idx)
    IN  IF is_some(opt) /\ is_none(unwrap(opt))
        THEN [inv |-> [self EXCEPT !.content[idx + 1] = Some(item)], res |-> Ok(NONE)]
        ELSE [inv |-> self, res |-> Err("SlotOccupied")]

\* insert_into that asks the restriction of the slot and refuses the item types it
\* rejects.
insert_into_restricted(self, idx, item) ==
    LET opt == content_get(self.content, idx)
        sr  == content_get(self.slot_restriction, idx)
    IN  IF is_some(opt)
        THEN IF is_some(unwrap(opt))
             THEN [inv |-> self, res |-> Err("SlotOccupied")]
             ELSE IF /\ is_some(sr)
                     /\ is_some(unwrap(sr))
                     /\ ~can_insert_into(unwrap(unwrap(sr)), Catalog[item.key].slot_type)
                  THEN [inv |-> self, res |-> Err("SlotRestricted")]
                  ELSE [inv |-> [self EXCEPT !.content[idx + 1] = Some(item)],
                        res |-> Ok(NONE)]
        ELSE [inv |-> self, res |-> Fault("panic")]

\* Inventory::insert_into(idx, item).
insert_into(self, idx, item) ==
    LET opt == content_get(self.content, idx)
    IN  IF is_some(opt)
        THEN IF is_some(unwrap(opt))
             THEN [inv |-> self, res |-> Err("SlotOccupied")]
             ELSE [inv |-> [self EXCEPT !.content[idx + 1] = Some(item)],
                   res |-> Ok(NONE)]
        ELSE [inv |-> self, res |-> Fault("panic")]

\* Inventory::first_empty_slot().
first_empty_slot(self) ==
    IF self.move_to_front = "None"
    THEN LET holes == {i \in 1..Len(self.content) : is_none(self.content[i])}
         IN  IF holes = {} THEN NONE
             ELSE Some((CHOOSE i \in holes : \A j \in holes : i <= j) - 1)
    ELSE LET max == IF self.sizing_mode.kind = "Fixed"
                    THEN self.sizing_mode.size
                    ELSE self.sizing_mode.max_size
         IN  IF Len(self.content) # max THEN Some(Len(self.content)) ELSE NONE

\* merge without the cap: the whole donor quantity moves, whatever maximum_stack.
merge_uncapped(inst, other, item_defs) ==
    IF inst.key = other.key /\ inst.user_data = other.user_data
    THEN [inst  |-> [inst EXCEPT !.quantity = @ + other.quantity],
          other |-> [other EXCEPT !.quantity = 0],
          fault |-> FALSE]
    ELSE [inst |-> inst, other |-> other, fault |-> FALSE]

\* merge comparing the keys only: stacks of different user data merge.
merge_any_user_data(inst, other, item_defs) ==
    IF inst.key = other.key
    THEN LET cap == item_defs[inst.key].maximum_stack
         IN  IF is_some(cap) /\ unwrap(cap) < inst.quantity
             THEN [inst |-> inst, other |-> other, fault |-> TRUE]
             ELSE LET amount == IF is_some(cap)
                                THEN Min(unwrap(cap) - inst.quantity, other.quantity)
                                ELSE other.quantity
                  IN  [inst  |-> [inst EXCEPT !.quantity = @ + amount],
                       other |-> [other EXCEPT !.quantity = @ - amount],
                       fault |-> FALSE]
    ELSE [inst |-> inst, other |-> other, fault |-> FALSE]

\* ItemInstance::merge(other, item_defs): moves quantity from other into self.
\* Returns [inst |-> self after, other |-> other after, fault |-> underflow].
\* `maximum_stack - self.quantity` underflows when self is already over the cap.
merge(inst, other, item_defs) ==
    IF inst.key = other.key /\ inst.user_data = other.user_data
    THEN LET cap == item_defs[inst.key].maximum_stack
         IN  IF is_some(cap) /\ unwrap(cap) < inst.quantity
             THEN [inst |-> inst, other |-> other, fault |-> TRUE]
             ELSE LET amount == IF is_some(cap)
                                THEN Min(unwrap(cap) - inst.quantity, other.quantity)
                                ELSE other.quantity
                  IN  [inst  |-> [inst EXCEPT !.quantity = @ + amount],
                       other |-> [other EXCEPT !.quantity = @ - amount],
                       fault |-> FALSE]
    ELSE [inst |-> inst, other |-> other, fault |-> FALSE]

\* The merge loop leaving after the first stack of the key, full or not.
insert_merge_first_only(content, i, item, item_defs) ==
    LET S == {j \in i..Len(content) : is_some(content[j]) /\ unwrap(content[j]).key = item.key}
    IN  IF S = {} \/ item.quantity = 0
        THEN [content |-> content, item |-> item, fault |-> FALSE]
        ELSE LET j == CHOOSE x \in S : \A y \in S : x <= y
                 m == merge(unwrap(content[j]), item, item_defs)
             IN  IF m.fault
                 THEN [content |-> content, item |-> item, fault |-> TRUE]
                 ELSE [content |-> [content EXCEPT ![j] = Some(m.inst)],
                       item |-> m.other, fault |-> FALSE]

\* The merge loop of Inventory::insert over get_key_mut(item.key), from slot
\* index i - 1 on, in slot order.
RECURSIVE insert_merge(_, _, _, _)
insert_merge(content, i, item, item_defs) ==
    IF i > Len(content) \/ item.quantity = 0
    THEN [content |-> content, item |-> item, fault |-> FALSE]
    ELSE IF is_some(content[i]) /\ unwrap(content[i]).key = item.key
         THEN LET m == merge(unwrap(content[i]), item, item_defs)
              IN  IF m.fault
                  THEN [content |-> content, item |-> item, fault |-> TRUE]
                  ELSE insert_merge([content EXCEPT ![i] = Some(m.inst)], i + 1, m.other,
                                    item_defs)
         ELSE insert_merge(content, i + 1, item, item_defs)

\* `self.insert_into(slot, item, item_defs).unwrap()`.
insert_into_unwrap(self, idx, item) ==
    LET r == insert_into(self, idx, item)
    IN  IF r.res.tag = "Ok" THEN r ELSE [inv |-> r.inv, res |-> Fault("panic")]

\* insert whose growth step pushes two slots for one stack.
insert_push_twice(self, item, item_defs) ==
    LET m      == insert_merge(self.content, 1, item, item_defs)
        merged == [self EXCEPT !.content = m.content]
        slot   == first_empty_slot(merged)
    IN  IF m.fault THEN [inv |-> merged, res |-> Fault("underflow")]
        ELSE IF m.item.quantity = 0 THEN [inv |-> merged, res |-> Ok(NONE)]
        ELSE IF is_some(slot) THEN insert_into_unwrap(merged, unwrap(slot), m.item)
        ELSE IF merged.sizing_mode.kind = "Fixed"
             THEN [inv |-> merged, res |-> Err("InventoryFull")]
        ELSE IF has_space(merged)
             THEN LET grown == [merged EXCEPT !.content = Append(Append(@, NONE), NONE)]
                  IN  insert_into_unwrap(grown, Len(grown.content) - 2, m.item)
        ELSE [inv |-> merged, res |-> Err("InventoryFull")]

\* Inventory::insert(item).
insert(self, item, item_defs) ==
    LET m      == insert_merge(self.content, 1, item, item_defs)
        merged == [self EXCEPT !.content = m.content]
        slot   == first_empty_slot(merged)
    IN  IF m.fault THEN [inv |-> merged, res |-> Fault("underflow")]
        ELSE IF m.item.quantity = 0 THEN [inv |-> merged, res |-> Ok(NONE)]
        ELSE IF is_some(slot) THEN insert_into_unwrap(merged, unwrap(slot), m.item)
        ELSE IF merged.sizing_mode.kind = "Fixed"
             THEN [inv |-> merged, res |-> Err("InventoryFull")]
        ELSE IF has_space(merged)
             THEN LET grown == [merged EXCEPT !.content = Append(@, NONE)]
                  IN  insert_into_unwrap(grown, Len(grown.content) - 1, m.item)
        ELSE [inv |-> merged, res |-> Err("InventoryFull")]

\* The indices of the slots holding key, from the last slot to the first.
key_indices_reversed(content, key) ==
    LET S == {i \in 1..Len(content) : is_some(content[i]) /\ unwrap(content[i]).key = key}
        RECURSIVE down(_)
        down(i) == IF i < 1 THEN << >>
                   ELSE IF i \in S THEN <<i - 1>> \o down(i - 1) ELSE down(i - 1)
    IN  down(Len(content))

\* The indices delete_key collects before its loop: the occupied slots holding key.
key_indices(content, key) ==
    LET S == {i \in 1..Len(content) : is_some(content[i]) /\ unwrap(content[i]).key = key}
        RECURSIVE up(_)
        up(i) == IF i > Len(content) THEN << >>
                 ELSE IF i \in S THEN <<i - 1>> \o up(i + 1) ELSE up(i + 1)
    IN  up(1)

\* The loop of Inventory::delete_key over the collected indices.
RECURSIVE delete_key_loop(_, _, _, _, _)
delete_key_loop(self, idxs, remaining, key, quantity) ==
    IF idxs = << >>
    THEN [inv |-> self, res |-> Fault("unreachable")]
    ELSE LET idx == Head(idxs)
         IN  IF ~occupied_at(self.content, idx)
             THEN [inv |-> self, res |-> Fault("panic")]
             ELSE LET avail == self.content[idx + 1][1].quantity
                      rm    == IF avail >= remaining THEN remaining ELSE avail
                      d     == delete(self, idx, rm)
                  IN  IF d.res.tag # "Ok"
                      THEN [inv |-> d.inv, res |-> Fault("panic")]
                      ELSE IF remaining - rm = 0
                           THEN [inv |-> d.inv, res |-> Ok(ItemInstance_new(key, quantity))]
                           ELSE delete_key_loop(d.inv, Tail(idxs), remaining - rm,
                                                key, quantity)

\* Inventory::delete_key(key, quantity).
delete_key(self, key, quantity) ==
    IF ~has_quantity(self, key, quantity)
    THEN [inv |-> self, res |-> Err("NotEnoughQuantity")]
    ELSE delete_key_loop(self, key_indices(self.content, key), quantity, key, quantity)

\* transfer that looks at the target slot before it deletes from the source.
transfer_checked(self, from_idx, tgt, to_idx, quantity) ==
    IF occupied_at(tgt.content, to_idx)
    THEN [inv |-> self, target |-> tgt, res |-> Err("SlotOccupied")]
    ELSE LET d == delete(self, from_idx, quantity)
         IN  IF d.res.tag # "Ok"
             THEN [inv |-> d.inv, target |-> tgt, res |-> d.res]
             ELSE LET i == insert_into(tgt, to_idx, d.res.val)
                  IN  [inv |-> d.inv, target |-> i.inv, res |-> i.res]

\* transfer that looks up the target slot first and deletes from the source after.
transfer_target_first(self, from_idx, tgt, to_idx, quantity) ==
    LET opt == content_get(tgt.content, to_idx)
    IN  IF is_none(opt)
        THEN [inv |-> self, target |-> tgt, res |-> Fault("panic")]
        ELSE IF is_some(unwrap(opt))
        THEN [inv |-> self, target |-> tgt, res |-> Err("SlotOccupied")]
        ELSE LET d == delete(self, from_idx, quantity)
             IN  IF d.res.tag # "Ok"
                 THEN [inv |-> d.inv, target |-> tgt, res |-> d.res]
                 ELSE LET i == insert_into(tgt, to_idx, d.res.val)
                      IN  [inv |-> d.inv, target |-> i.inv, res |-> i.res]

\* Inventory::transfer(from_idx, target, to_idx, quantity, _with_overflow).
\* Returns [inv |-> self after, target |-> target after, res |-> result].
transfer(self, from_idx, tgt, to_idx, quantity) ==
    LET d == delete(self, from_idx, quantity)
    IN  IF d.res.tag # "Ok"
        THEN [inv |-> d.inv, target |-> tgt, res |-> d.res]
        ELSE LET i == insert_into(tgt, to_idx, d.res.val)
             IN  [inv |-> d.inv, target |-> i.inv, res |-> i.res]

\* transfer_stack that transfers one unit of the stack.
transfer_stack_one_unit(self, from_idx, tgt, to_idx) ==
    IF occupied_at(self.content, from_idx)
    THEN transfer(self, from_idx, tgt, to_idx, 1)
    ELSE [inv |-> self, target |-> tgt, res |-> Err("SlotEmpty")]

\* Inventory::transfer_stack(from_idx, target, to_idx, with_overflow).
transfer_stack(self, from_idx, tgt, to_idx) ==
    IF occupied_at(self.content, from_idx)
    THEN transfer(self, from_idx, tgt, to_idx, self.content[from_idx + 1][1].quantity)
    ELSE [inv |-> self, target |-> tgt, res |-> Err("SlotEmpty")]

\* Inventory::move_item(from_idx, to_idx, quantity, _with_overflow).
move_item(self, from_idx, to_idx, quantity) ==
    LET d == delete(self, from_idx, quantity)
    IN  IF d.res.tag # "Ok" THEN d ELSE insert_into(d.inv, to_idx, d.res.val)

\* Inventory::move_stack(from_idx, to_idx, with_overflow).
move_stack(self, from_idx, to_idx) ==
    IF occupied_at(self.content, from_idx)
    THEN move_item(self, from_idx, to_idx, self.content[from_idx + 1][1].quantity)
    ELSE [inv |-> self, res |-> Err("SlotEmpty")]

----------------------------------------------------------------------------
(* The state machine: a caller owning two inventories, `inv` (self) and    *)
(* `target`, and calling one operation after another.  `last` records the  *)
(* latest call: its name and the outcome it returned.                      *)

\* The stacks a caller passes to insert and insert_into: quantity >= 1.
Supplied ==
    {[key |-> 1, quantity |-> q, durability |-> NONE, user_data |-> DefaultUserData]
        : q \in 1..MaxQty}
    \cup
    {[key |-> 2, quantity |-> 1, durability |-> Some(1), user_data |-> DefaultUserData]}

\* Slot indices a caller passes: every slot of the inventory and one past its end.
Indices(self) == 0..Len(self.content)

\* Quantity arguments.
Quantities == 0..MaxQty

\* The variant a call returned: Ok, an ItemError variant, or a fault.
Outcome(res) == [tag |-> res.tag, err |-> res.err]

faulted == last.res.tag = "Fault"

Call(op, r) ==
    /\ inv' = r.inv
    /\ last' = [op |-> op, res |-> Outcome(r.res)]
    /\ UNCHANGED <<target, unlockables>>

Call2(op, r) ==
    /\ inv' = r.inv
    /\ target' = r.target
    /\ last' = [op |-> op, res |-> Outcome(r.res)]
    /\ UNCHANGED unlockables

\* The inventories new_fixed and new_dynamic build (min_size <= max_size), with
\* move_to_front set by the caller.
FixedInventories == {new_fixed(n, mtf) : n \in 1..MaxSize, mtf \in MoveToFrontMode}

DynamicInventories ==
    UNION {{new_dynamic(mn, mx, mtf) : mn \in 0..mx, mtf \in MoveToFrontMode}
           : mx \in 1..(MaxSize - 1)}

Init ==
    /\ inv \in FixedInventories \cup DynamicInventories
    /\ target = new_fixed(0, "None")
    /\ last = [op |-> "new", res |-> Outcome(Ok(NONE))]
    /\ unlockables = Unlockables_default

Insert ==
    /\ ~faulted
    /\ \E item \in Supplied : Call("insert", insert(inv, item, Catalog))

InsertInto ==
    /\ ~faulted
    /\ \E idx \in Indices(inv) : \E item \in Supplied :
          Call("insert_into", insert_into(inv, idx, item))

Delete ==
    /\ ~faulted
    /\ \E idx \in Indices(inv) : \E q \in Quantities :
          Call("delete", delete(inv, idx, q))

DeleteStack ==
    /\ ~faulted
    /\ \E idx \in Indices(inv) : Call("delete_stack", delete_stack(inv, idx))

DeleteKey ==
    /\ ~faulted
    /\ \E key \in Keys : \E q \in Quantities :
          Call("delete_key", delete_key(inv, key, q))

Consume ==
    /\ ~faulted
    /\ \E idx \in Indices(inv) : Call("consume", consume(inv, idx))

UseItem ==
    /\ ~faulted
    /\ \E idx \in Indices(inv) : Call("use_item", use_item(inv, idx))

MoveItem ==
    /\ ~faulted
    /\ \E from_idx \in Indices(inv) : \E to_idx \in Indices(inv) : \E q \in Quantities :
          Call("move_item", move_item(inv, from_idx, to_idx, q))

MoveStack ==
    /\ ~faulted
    /\ \E from_idx \in Indices(inv) : \E to_idx \in Indices(inv) :
          Call("move_stack", move_stack(inv, from_idx, to_idx))

Transfer ==
    /\ ~faulted
    /\ \E from_idx \in Indices(inv) : \E to_idx \in Indices(target) : \E q \in Quantities :
          Call2("transfer", transfer(inv, from_idx, target, to_idx, q))

TransferStack ==
    /\ ~faulted
    /\ \E from_idx \in Indices(inv) : \E to_idx \in Indices(target) :
          Call2("transfer_stack", transfer_stack(inv, from_idx, target, to_idx))

\* One inventory under every operation that takes no second inventory.
Next ==
    \/ Insert
    \/ InsertInto
    \/ Delete
    \/ DeleteStack
    \/ DeleteKey
    \/ Consume
    \/ UseItem
    \/ MoveItem
    \/ MoveStack

Spec == Init /\ [][Next]_vars

\* Two inventories: self is filled and used, and its stacks are transferred to target.
InitTransfer ==
    /\ inv \in {new_fixed(n, mtf) : n \in 1..(MaxSize - 1), mtf \in MoveToFrontMode}
    /\ target = new_fixed(1, "None")
    /\ last = [op |-> "new", res |-> Outcome(Ok(NONE))]
    /\ unlockables = Unlockables_default

NextTransfer ==
    \/ InsertInto
    \/ UseItem
    \/ Transfer
    \/ TransferStack

SpecTransfer == InitTransfer /\ [][NextTransfer]_vars

\* A user data value other than U::default(): a stack built with it (user_data is a
\* public field) does not merge with a stack of the same key and default user data.
OtherUserData == 1

UserData == {DefaultUserData, OtherUserData}

\* A catalog whose key 2 has no stack cap (maximum_stack = None); key 1 stacks up
\* to MaxStack.
CatalogUnlimited ==
    [k \in Keys |-> [key |-> k,
                     maximum_stack |-> IF k = 1 THEN Some(MaxStack) ELSE NONE]]

\* The stacks a caller passes to insert: any quantity >= 1, over the cap included.
SuppliedAny ==
    {[key |-> k, quantity |-> q, durability |-> NONE, user_data |-> u]
        : k \in Keys, q \in 1..(MaxQty + 1), u \in UserData}

\* The stacks a caller passes to insert_into: within the cap of their definition.
SuppliedCapped ==
    {st \in SuppliedAny :
        LET cap == CatalogUnlimited[st.key].maximum_stack
        IN  is_none(cap) \/ st.quantity <= unwrap(cap)}

\* The number of items an inventory holds, all keys together.
total_quantity(content) ==
    LET RECURSIVE over(_)
        over(S) == IF S = {} THEN 0
                   ELSE LET k == CHOOSE x \in S : TRUE
                        IN  sum_key(content, k) + over(S \ {k})
    IN  over(Keys)

InsertAny ==
    /\ ~faulted
    /\ \E item \in SuppliedAny :
          /\ total_quantity(inv.content) + item.quantity <= MaxTotal
          /\ Call("insert", insert(inv, item, CatalogUnlimited))

InsertIntoCapped ==
    /\ ~faulted
    /\ \E idx \in Indices(inv) : \E item \in SuppliedCapped :
          /\ total_quantity(inv.content) + item.quantity <= MaxTotal
          /\ Call("insert_into", insert_into(inv, idx, item))

\* One inventory filled by insert and insert_into with stacks of either user data,
\* under a catalog with a capped and an uncapped key.
InitMerge ==
    /\ inv \in FixedInventories \cup DynamicInventories
    /\ target = new_fixed(0, "None")
    /\ last = [op |-> "new", res |-> Outcome(Ok(NONE))]
    /\ unlockables = Unlockables_default

NextMerge ==
    \/ InsertAny
    \/ InsertIntoCapped
    \/ Delete

SpecMerge == InitMerge /\ [][NextMerge]_vars

\* The stacks a caller puts into slots to use them: either key, with or without
\* durability, worn down to 0 included.
SuppliedTools ==
    {[key |-> k, quantity |-> q, durability |-> d, user_data |-> DefaultUserData]
        : k \in Keys, q \in 1..MaxQty, d \in {NONE} \cup {Some(x) : x \in 0..MaxDur}}

InsertIntoTool ==
    /\ ~faulted
    /\ \E idx \in Indices(inv) : \E item \in SuppliedTools :
          Call("insert_into", insert_into(inv, idx, item))

\* One inventory whose stacks are put into slots, used and consumed.
InitUse ==
    /\ inv \in {new_fixed(n, mtf) : n \in 1..(MaxSize - 1), mtf \in MoveToFrontMode}
    /\ target = new_fixed(0, "None")
    /\ last = [op |-> "new", res |-> Outcome(Ok(NONE))]
    /\ unlockables = Unlockables_default

NextUse ==
    \/ InsertIntoTool
    \/ UseItem
    \/ Consume

SpecUse == InitUse /\ [][NextUse]_vars

\* The ids of the unlockables held, and the values an unlockable guards.
UnlockableIds == 1..MaxUnlockables

InnerValues == 0..MaxInner

Lock ==
    /\ \E id \in UnlockableIds : unlockables' = [unlockables EXCEPT ![id] = lock(@)]
    /\ last' = [op |-> "lock", res |-> Outcome(Ok(NONE))]
    /\ UNCHANGED <<inv, target>>

Unlock ==
    /\ \E id \in UnlockableIds : unlockables' = [unlockables EXCEPT ![id] = unlock(@)]
    /\ last' = [op |-> "unlock", res |-> Outcome(Ok(NONE))]
    /\ UNCHANGED <<inv, target>>

Set ==
    /\ \E id \in UnlockableIds : \E new \in InnerValues :
          unlockables' = [unlockables EXCEPT ![id] = set(@, new)]
    /\ last' = [op |-> "set", res |-> Outcome(Ok(NONE))]
    /\ UNCHANGED <<inv, target>>

\* Unlockables, each built by Unlockable::new under its id, locked or unlocked.
InitUnlock ==
    /\ unlockables \in
          {f \in [UnlockableIds ->
                    {Unlockable_new(id, v, b) : id \in UnlockableIds, v \in InnerValues,
                                                b \in BOOLEAN}] :
              \A id \in UnlockableIds : f[id].id = id}
    /\ inv = new_fixed(0, "None")
    /\ target = new_fixed(0, "None")
    /\ last = [op |-> "new", res |-> Outcome(Ok(NONE))]

NextUnlock ==
    \/ Lock
    \/ Unlock
    \/ Set

SpecUnlock == InitUnlock /\ [][NextUnlock]_vars

\* The restrictions a caller puts on a slot (slot_restriction is a public field):
\* none, or a slot type.
SlotRestrictions == {NONE, Some("Regular"), Some("Equipment")}

\* One Fixed inventory whose slots carry restrictions, under the calls that put
\* stacks into slots and take them out.
InitRestrict ==
    /\ inv \in UNION {{[new_fixed(n, mtf) EXCEPT !.slot_restriction = sr]
                         : mtf \in MoveToFrontMode, sr \in [1..n -> SlotRestrictions]}
                      : n \in 1..(MaxSize - 1)}
    /\ target = new_fixed(0, "None")
    /\ last = [op |-> "new", res |-> Outcome(Ok(NONE))]
    /\ unlockables = Unlockables_default

NextRestrict ==
    \/ Insert
    \/ InsertInto
    \/ DeleteStack
    \/ MoveStack

SpecRestrict == InitRestrict /\ [][NextRestrict]_vars

\* The stacks a caller builds with user data and a durability of its choice.
SuppliedMarked ==
    {[key |-> k, quantity |-> q, durability |-> d, user_data |-> u]
        : k \in Keys, q \in 1..MaxQty, d \in {NONE, Some(1)}, u \in UserData}

InsertIntoMarked ==
    /\ ~faulted
    /\ \E idx \in Indices(inv) : \E item \in SuppliedMarked :
          Call("insert_into", insert_into(inv, idx, item))

\* A source inventory holding stacks with user data and a target of one slot,
\* under the calls that carry a stack from one slot to another.
InitCarry ==
    /\ inv \in {new_fixed(n, mtf) : n \in 1..(MaxSize - 1), mtf \in MoveToFrontMode}
    /\ target = new_fixed(1, "None")
    /\ last = [op |-> "new", res |-> Outcome(Ok(NONE))]
    /\ unlockables = Unlockables_default

NextCarry ==
    \/ InsertIntoMarked
    \/ Transfer
    \/ TransferStack

SpecCarry == InitCarry /\ [][NextCarry]_vars

----------------------------------------------------------------------------
(* Properties. *)

occupied_slots(content) == {i \in 1..Len(content) : is_some(content[i])}

\* How many slots of content hold exactly the stack st.
count_stack(content, st) == Cardinality({i \in 1..Len(content) : content[i] = Some(st)})

\* The stacks of key k held by content.
stacks_of(content, k) ==
    {unwrap(content[i]) : i \in {j \in occupied_slots(content) : unwrap(content[j]).key = k}}

\* C1: after any sequence of calls with supplied stacks of quantity >= 1 and
\* quantity arguments 0..MaxQty, no occupied slot holds a stack of quantity 0.
\* (move_item(from, to, 0) and transfer(from, target, to, 0) delete 0 units and
\* insert the resulting stack of quantity 0 into the empty slot `to`.)
C1_NoZeroQuantityStack ==
    /\ \A i \in occupied_slots(inv.content) : unwrap(inv.content[i]).quantity > 0
    /\ \A i \in occupied_slots(target.content) : unwrap(target.content[i]).quantity > 0

\* C2: in every reachable state, delete_key(key, q) either returns Ok with a stack
\* of that key and quantity exactly q, the total of key having dropped by exactly
\* q, or returns NotEnoughQuantity and leaves the inventory unchanged; it never
\* faults.
C2_DeleteKeyAllOrNothing ==
    \A key \in Keys : \A q \in Quantities :
        LET r == delete_key(inv, key, q)
        IN  \/ /\ r.res.tag = "Ok"
               /\ r.res.val.key = key
               /\ r.res.val.quantity = q
               /\ sum_key(r.inv.content, key) = sum_key(inv.content, key) - q
            \/ /\ r.res.tag = "Err"
               /\ r.res.err = "NotEnoughQuantity"
               /\ r.inv = inv

\* C3: delete_key(key, q) drains only stacks of key: for every other key k the
\* total quantity of k and the stacks of k (each with its quantity) are the same
\* before and after the call, under every move_to_front mode.
C3_DeleteKeyOtherKeysUntouched ==
    \A key \in Keys : \A q \in Quantities : \A k \in Keys \ {key} :
        LET r == delete_key(inv, key, q)
        IN  /\ sum_key(r.inv.content, k) = sum_key(inv.content, k)
            /\ \A st \in stacks_of(inv.content, k) \cup stacks_of(r.inv.content, k) :
                  count_stack(r.inv.content, st) = count_stack(inv.content, st)

\* C4: no call faults, except insert_into, transfer, transfer_stack, move_item and
\* move_stack called with a target index that is not less than the target's slot
\* count: the latest call has not faulted unless it is one of these five, and
\* none of these five faults on a target index below the slot count.
C4_NoFault ==
    LET ok(r) == r.res.tag # "Fault"
    IN  /\ faulted => last.op \in {"insert_into", "transfer", "transfer_stack",
                                   "move_item", "move_stack"}
        /\ \A idx \in Indices(inv) : \A item \in Supplied :
              idx < Len(inv.content) => ok(insert_into(inv, idx, item))
        /\ \A from_idx \in Indices(inv) : \A to_idx \in Indices(inv) : \A q \in Quantities :
              to_idx < Len(inv.content) => ok(move_item(inv, from_idx, to_idx, q))
        /\ \A from_idx \in Indices(inv) : \A to_idx \in Indices(inv) :
              to_idx < Len(inv.content) => ok(move_stack(inv, from_idx, to_idx))
        /\ \A from_idx \in Indices(inv) : \A to_idx \in Indices(target) : \A q \in Quantities :
              to_idx < Len(target.content)
                  => ok(transfer(inv, from_idx, target, to_idx, q))
        /\ \A from_idx \in Indices(inv) : \A to_idx \in Indices(target) :
              to_idx < Len(target.content)
                  => ok(transfer_stack(inv, from_idx, target, to_idx))

\* C5: an inventory created by new_fixed(n) has content.len() = n in every
\* reachable state, under every move_to_front mode, after successful and failed
\* calls alike.
C5_FixedLen ==
    inv.sizing_mode.kind = "Fixed" => Len(inv.content) = inv.sizing_mode.size

\* A compacting removal has emptied a slot of a Fixed inventory that still holds
\* a stack.
C5_Witness ==
    /\ inv.sizing_mode.kind = "Fixed"
    /\ inv.move_to_front \in {"TakeLast", "Offset"}
    /\ last.op \in {"delete", "delete_stack", "delete_key", "consume", "use_item"}
    /\ last.res.tag \in {"Ok", "Err"}
    /\ last.res.err \in {"", "StackConsumed", "ItemDestroyed"}
    /\ occupied_slots(inv.content) # {}
    /\ is_none(inv.content[Len(inv.content)])
    /\ Len(inv.content) = MaxSize

\* C6: an inventory created by new_dynamic(min, max), min <= max, has
\* min <= content.len() <= max in every reachable state.
C6_DynamicLen ==
    inv.sizing_mode.kind = "Dynamic" =>
        /\ inv.sizing_mode.min_size <= Len(inv.content)
        /\ Len(inv.content) <= inv.sizing_mode.max_size

\* A Dynamic inventory has grown by insert from min_size to max_size and is full.
C6_Witness ==
    /\ inv.sizing_mode.kind = "Dynamic"
    /\ inv.sizing_mode.min_size < inv.sizing_mode.max_size
    /\ Len(inv.content) = inv.sizing_mode.max_size
    /\ last.op = "insert"
    /\ last.res.tag = "Ok"
    /\ occupied_slots(inv.content) = 1..Len(inv.content)

\* C7: transfer(from_idx, target, to_idx, q, _) of q >= 1 units out of a source
\* stack of n >= q units into an existing Empty target slot returns Ok; the source
\* then holds n - q units at from_idx (the slot is removed when n = q), the target
\* slot holds a stack of the same key and durability with quantity q, and the sum
\* of every key's quantity over both inventories is unchanged.
C7_TransferIntoEmptySlot ==
    \A from_idx \in Indices(inv) : \A to_idx \in Indices(target) : \A q \in 1..MaxQty :
        (/\ occupied_at(inv.content, from_idx)
         /\ unwrap(inv.content[from_idx + 1]).quantity >= q
         /\ to_idx < Len(target.content)
         /\ is_none(target.content[to_idx + 1]))
        =>
        LET ii == unwrap(inv.content[from_idx + 1])
            n  == ii.quantity
            r  == transfer(inv, from_idx, target, to_idx, q)
        IN  /\ r.res.tag = "Ok"
            /\ n > q => r.inv.content =
                          [inv.content EXCEPT ![from_idx + 1] = Some([ii EXCEPT !.quantity = n - q])]
            /\ n = q => /\ Len(r.inv.content) = Len(inv.content)
                        /\ Cardinality(occupied_slots(r.inv.content))
                             = Cardinality(occupied_slots(inv.content)) - 1
                        /\ count_stack(r.inv.content, ii) = count_stack(inv.content, ii) - 1
            /\ is_some(r.target.content[to_idx + 1])
            /\ unwrap(r.target.content[to_idx + 1]).key = ii.key
            /\ unwrap(r.target.content[to_idx + 1]).durability = ii.durability
            /\ unwrap(r.target.content[to_idx + 1]).quantity = q
            /\ \A k \in Keys :
                  sum_key(r.inv.content, k) + sum_key(r.target.content, k)
                    = sum_key(inv.content, k) + sum_key(target.content, k)

\* A transfer has succeeded and the target slot holds units of a stack that
\* tracks durability.
C7_Witness ==
    /\ last.op = "transfer"
    /\ last.res.tag = "Ok"
    /\ is_some(target.content[1])
    /\ unwrap(target.content[1]).quantity >= 1
    /\ is_some(unwrap(target.content[1]).durability)

\* C8: when transfer's delete step succeeds and its insert_into step meets an
\* Occupied target slot, the call returns SlotOccupied, the source has lost the
\* requested quantity, the target is unchanged, and the removed units are in
\* neither inventory: the combined total of the key drops by the requested
\* quantity.
C8_TransferLosesDeletedStack ==
    \A from_idx \in Indices(inv) : \A to_idx \in Indices(target) : \A q \in Quantities :
        (/\ occupied_at(inv.content, from_idx)
         /\ unwrap(inv.content[from_idx + 1]).quantity >= q
         /\ occupied_at(target.content, to_idx))
        =>
        LET key == unwrap(inv.content[from_idx + 1]).key
            r   == transfer(inv, from_idx, target, to_idx, q)
        IN  /\ r.res.tag = "Err"
            /\ r.res.err = "SlotOccupied"
            /\ r.target = target
            /\ sum_key(r.inv.content, key) = sum_key(inv.content, key) - q
            /\ \A k \in Keys :
                  sum_key(r.inv.content, k) + sum_key(r.target.content, k)
                    = sum_key(inv.content, k) + sum_key(target.content, k)
                      - (IF k = key THEN q ELSE 0)

\* A transfer has returned SlotOccupied and the source, which held a stack, is
\* empty: the stack is in neither inventory.
C8_Witness ==
    /\ last.op = "transfer"
    /\ last.res.err = "SlotOccupied"
    /\ occupied_slots(inv.content) = {}
    /\ occupied_slots(target.content) # {}

\* C9: an insert that returns InventoryFull leaves the inventory unchanged: no
\* existing stack has taken part of the incoming stack before the failure.
C9_InsertFullLeavesUnchanged ==
    \A item \in Supplied :
        LET r == insert(inv, item, Catalog)
        IN  (r.res.tag = "Err" /\ r.res.err = "InventoryFull") => r.inv = inv

\* The stack st has no room left under its definition's maximum_stack.
stack_full(st, item_defs) ==
    LET cap == item_defs[st.key].maximum_stack
    IN  is_some(cap) /\ st.quantity >= unwrap(cap)

cannot_merge(content, item, item_defs) ==
    \A i \in occupied_slots(content) :
        unwrap(content[i]).key = item.key =>
            \/ unwrap(content[i]).user_data # item.user_data
            \/ stack_full(unwrap(content[i]), item_defs)

\* The index (1-based) of the first Empty slot of content, 0 when there is none.
first_hole(content) ==
    LET holes == {i \in 1..Len(content) : is_none(content[i])}
    IN  IF holes = {} THEN 0 ELSE CHOOSE i \in holes : \A j \in holes : i <= j

\* C11: under Fixed sizing and every move_to_front mode, insert of a stack that has
\* nothing to merge into returns Ok and puts the stack into the first Empty slot,
\* all other slots unchanged, when a slot is Empty; it returns InventoryFull
\* exactly when no slot is Empty.
\* (Under TakeLast and Offset first_empty_slot compares content.len() with size,
\* which are always equal under Fixed sizing: it never finds a slot.)
C11_FixedInsertFirstEmpty ==
    \A item \in Supplied :
        (inv.sizing_mode.kind = "Fixed" /\ cannot_merge(inv.content, item, Catalog)) =>
            LET r == insert(inv, item, Catalog)
                h == first_hole(inv.content)
            IN  IF h # 0
                THEN /\ r.res.tag = "Ok"
                     /\ r.inv.content = [inv.content EXCEPT ![h] = Some(item)]
                ELSE /\ r.res.tag = "Err"
                     /\ r.res.err = "InventoryFull"

\* C12: under Dynamic sizing and every move_to_front mode, with no Empty slot,
\* insert of a stack that cannot merge returns Ok, appends one slot and puts the
\* stack there when content.len() < max_size, and returns InventoryFull when
\* content.len() = max_size.
\* (Under TakeLast and Offset first_empty_slot returns content.len(), an index one
\* past the end, and insert_into panics on it.)
C12_DynamicInsertGrows ==
    \A item \in Supplied :
        (/\ inv.sizing_mode.kind = "Dynamic"
         /\ first_hole(inv.content) = 0
         /\ cannot_merge(inv.content, item, Catalog))
        =>
        LET r == insert(inv, item, Catalog)
        IN  IF Len(inv.content) < inv.sizing_mode.max_size
            THEN /\ r.res.tag = "Ok"
                 /\ r.inv.content = Append(inv.content, Some(item))
            ELSE /\ r.res.tag = "Err"
                 /\ r.res.err = "InventoryFull"

\* C13: with move_to_front = None, has_space() is true exactly when insert of a
\* stack that cannot merge returns Ok, and has_space() = false implies that such
\* an insert returns InventoryFull, under Fixed and Dynamic sizing.
\* (A Dynamic inventory at max_size with an Empty slot: has_space() is false and
\* insert fills the slot.)
C13_HasSpaceIffInsertOk ==
    \A item \in Supplied :
        (inv.move_to_front = "None" /\ cannot_merge(inv.content, item, Catalog)) =>
            LET r == insert(inv, item, Catalog)
            IN  /\ has_space(inv) <=> r.res.tag = "Ok"
                /\ ~has_space(inv) => (r.res.tag = "Err" /\ r.res.err = "InventoryFull")

\* C14: for a recipient held by the inventory and a donor of the same key and user
\* data, merge moves min(cap - recipient.quantity, donor.quantity) units when the
\* definition has maximum_stack = Some(cap) and the recipient is within the cap:
\* the recipient does not exceed cap and the sum of the two quantities is
\* unchanged; with maximum_stack = None the whole donor quantity moves.
C14_MergeAmount ==
    \A i \in occupied_slots(inv.content) : \A donor \in SuppliedAny :
        LET rec  == unwrap(inv.content[i])
            cap  == CatalogUnlimited[rec.key].maximum_stack
            m    == merge(rec, donor, CatalogUnlimited)
            room == unwrap(cap) - rec.quantity
            amt  == IF is_none(cap) THEN donor.quantity
                    ELSE IF room < donor.quantity THEN room ELSE donor.quantity
        IN  (/\ rec.key = donor.key
             /\ rec.user_data = donor.user_data
             /\ is_some(cap) => rec.quantity <= unwrap(cap))
            =>
            /\ ~m.fault
            /\ m.inst = [rec EXCEPT !.quantity = rec.quantity + amt]
            /\ m.other = [donor EXCEPT !.quantity = donor.quantity - amt]
            /\ is_some(cap) => m.inst.quantity <= unwrap(cap)
            /\ m.inst.quantity + m.other.quantity = rec.quantity + donor.quantity
            /\ is_none(cap) => m.other.quantity = 0

\* An insert has merged into the one stack of the inventory, of the key without a
\* cap: the stack holds more than any stack a caller supplies.
C14_Witness ==
    /\ last.op = "insert"
    /\ last.res.tag = "Ok"
    /\ Cardinality(occupied_slots(inv.content)) = 1
    /\ \E i \in occupied_slots(inv.content) :
          /\ unwrap(inv.content[i]).key = 2
          /\ unwrap(inv.content[i]).quantity = MaxTotal

\* C15: merge of two stacks whose key or user data differ changes neither stack
\* and raises nothing; and insert leaves every existing stack whose user data
\* differs from the incoming stack's as it was.
C15_MergeMismatchNoOp ==
    /\ \A i \in occupied_slots(inv.content) : \A donor \in SuppliedAny :
          LET rec == unwrap(inv.content[i])
              m   == merge(rec, donor, CatalogUnlimited)
          IN  (rec.key # donor.key \/ rec.user_data # donor.user_data) =>
                  (~m.fault /\ m.inst = rec /\ m.other = donor)
    /\ \A item \in SuppliedAny :
          LET r == insert(inv, item, CatalogUnlimited)
          IN  \A i \in occupied_slots(inv.content) :
                  unwrap(inv.content[i]).user_data # item.user_data =>
                      (i <= Len(r.inv.content) /\ r.inv.content[i] = inv.content[i])

\* An insert has met a stack of its key with another user data and room left: the
\* inventory holds two stacks of one unit of key 1, one of each user data.
C15_Witness ==
    /\ last.op = "insert"
    /\ last.res.tag = "Ok"
    /\ Cardinality(occupied_slots(inv.content)) = 2
    /\ \A i \in occupied_slots(inv.content) :
          unwrap(inv.content[i]).key = 1 /\ unwrap(inv.content[i]).quantity = 1
    /\ \E i \in occupied_slots(inv.content) : \E j \in occupied_slots(inv.content) :
          unwrap(inv.content[i]).user_data # unwrap(inv.content[j]).user_data

\* C16: when insert is passed stacks of any quantity >= 1 and insert_into stacks
\* within the cap, every stack held by the inventory has a quantity of at most the
\* maximum_stack of its definition (when that is Some).
\* (insert puts what is left after the merge loop into a slot without looking at
\* maximum_stack.)
C16_StackWithinCap ==
    \A i \in occupied_slots(inv.content) :
        LET cap == CatalogUnlimited[unwrap(inv.content[i]).key].maximum_stack
        IN  is_some(cap) => unwrap(inv.content[i]).quantity <= unwrap(cap)

\* The units of key held by content, counted one by one: a pair <<slot, unit>> for
\* each.
units_of(content, key) ==
    UNION {{<<i, u>> : u \in 1..unwrap(content[i]).quantity}
           : i \in {j \in occupied_slots(content) : unwrap(content[j]).key = key}}

\* C17: has_quantity(key, n) is true exactly when the occupied slots holding key
\* hold at least n units together, for every key and every n from 0 to one more
\* than the inventory can hold.  (has_quantity takes &self: it has no effect.)
C17_HasQuantityIffSum ==
    \A key \in Keys : \A n \in 0..(MaxSize * MaxStack + 1) :
        has_quantity(inv, key, n) <=> Cardinality(units_of(inv.content, key)) >= n

\* delete_key has asked has_quantity for more units of key 1 than the inventory
\* holds and has been refused: one unit of key 1 is held, next to a stack of key 2.
C17_Witness ==
    /\ last.op = "delete_key"
    /\ last.res.err = "NotEnoughQuantity"
    /\ \E i \in occupied_slots(inv.content) : unwrap(inv.content[i]).key = 2
    /\ has_quantity(inv, 1, 1)
    /\ ~has_quantity(inv, 1, MaxQty)

\* C18: insert_into(idx, stack) on an existing Occupied slot returns SlotOccupied
\* and leaves the inventory unchanged, whatever the two keys; on an existing Empty
\* slot it returns Ok, the slot holds exactly the given stack and every other slot
\* is unchanged.
C18_InsertIntoSlot ==
    \A idx \in Indices(inv) : \A item \in Supplied :
        idx < Len(inv.content) =>
            LET r == insert_into(inv, idx, item)
            IN  IF is_some(inv.content[idx + 1])
                THEN /\ r.res.tag = "Err"
                     /\ r.res.err = "SlotOccupied"
                     /\ r.inv = inv
                ELSE /\ r.res.tag = "Ok"
                     /\ r.inv.content[idx + 1] = Some(item)
                     /\ Len(r.inv.content) = Len(inv.content)
                     /\ \A j \in 1..Len(inv.content) :
                           j # idx + 1 => r.inv.content[j] = inv.content[j]
                     /\ r.inv.sizing_mode = inv.sizing_mode
                     /\ r.inv.move_to_front = inv.move_to_front

\* insert_into has returned SlotOccupied on an inventory whose only stack is one
\* unit of the stackable key 1: the stack has room and has taken nothing.
C18_Witness ==
    /\ last.op = "insert_into"
    /\ last.res.err = "SlotOccupied"
    /\ Cardinality(occupied_slots(inv.content)) = 1
    /\ \E i \in occupied_slots(inv.content) :
          unwrap(inv.content[i]).key = 1 /\ unwrap(inv.content[i]).quantity = 1

\* C19: insert_into panics exactly when idx is not less than the slot count; it
\* then returns no ItemError, and on an existing slot it never faults.
C19_InsertIntoPanicsOutOfRange ==
    \A idx \in Indices(inv) : \A item \in Supplied :
        LET r == insert_into(inv, idx, item)
        IN  /\ r.res.tag = "Fault" <=> idx >= Len(inv.content)
            /\ idx >= Len(inv.content) => (r.res.err = "panic" /\ r.inv = inv)

\* insert_into has panicked on an inventory that holds a stack and an Empty slot.
C19_Witness ==
    /\ last.op = "insert_into"
    /\ faulted
    /\ last.res.err = "panic"
    /\ occupied_slots(inv.content) # {}
    /\ first_hole(inv.content) # 0

\* C20: delete(idx, q) returns SlotEmpty when slot idx is Empty or does not exist,
\* and NotEnoughQuantity when the stack at idx holds fewer than q units; the
\* inventory is unchanged in both cases.
C20_DeleteErrorsLeaveUnchanged ==
    \A idx \in Indices(inv) : \A q \in Quantities :
        LET r == delete(inv, idx, q)
        IN  /\ ~occupied_at(inv.content, idx) =>
                  (r.res.tag = "Err" /\ r.res.err = "SlotEmpty" /\ r.inv = inv)
            /\ (occupied_at(inv.content, idx) /\ unwrap(inv.content[idx + 1]).quantity < q) =>
                  (r.res.tag = "Err" /\ r.res.err = "NotEnoughQuantity" /\ r.inv = inv)

\* delete has returned NotEnoughQuantity and the inventory still holds a stack of
\* fewer units than the largest quantity argument.
C20_Witness ==
    /\ last.op = "delete"
    /\ last.res.err = "NotEnoughQuantity"
    /\ \E i \in occupied_slots(inv.content) : unwrap(inv.content[i]).quantity < MaxQty

\* What content is after the slot with index idx has been removed under the
\* compaction policy mtf: cleared in place (None), replaced by the last slot
\* (TakeLast) or closed by shifting the later slots left (Offset), the length kept.
after_removal(content, idx, mtf) ==
    LET n == Len(content)
    IN  [i \in 1..n |->
            CASE mtf = "None"     -> IF i = idx + 1 THEN NONE ELSE content[i]
              [] mtf = "TakeLast" -> IF i = n THEN NONE
                                     ELSE IF i = idx + 1 THEN content[n] ELSE content[i]
              [] mtf = "Offset"   -> IF i = n THEN NONE
                                     ELSE IF i < idx + 1 THEN content[i] ELSE content[i + 1]]

\* C21: a successful delete(idx, q) on a stack of n >= q units returns a stack of
\* the source's key and durability with quantity q; the source keeps n - q units
\* in place when n > q, and when n = q the slot is removed under move_to_front;
\* delete_stack(idx) gives what delete(idx, n) gives.
C21_DeleteReturnsAndKeeps ==
    \A idx \in Indices(inv) : \A q \in Quantities :
        (occupied_at(inv.content, idx) /\ unwrap(inv.content[idx + 1]).quantity >= q) =>
            LET ii == unwrap(inv.content[idx + 1])
                n  == ii.quantity
                r  == delete(inv, idx, q)
            IN  /\ r.res.tag = "Ok"
                /\ r.res.val.key = ii.key
                /\ r.res.val.quantity = q
                /\ r.res.val.durability = ii.durability
                /\ n > q => r.inv.content =
                              [inv.content EXCEPT ![idx + 1] = Some([ii EXCEPT !.quantity = n - q])]
                /\ n = q => r.inv.content = after_removal(inv.content, idx, inv.move_to_front)
                /\ r.inv.sizing_mode = inv.sizing_mode
                /\ r.inv.move_to_front = inv.move_to_front
                /\ delete_stack(inv, idx) = delete(inv, idx, n)

\* delete_stack has removed a stack from an inventory that compacts by shifting
\* and still holds a stack and, after it, an Empty slot.
C21_Witness ==
    /\ last.op = "delete_stack"
    /\ last.res.tag = "Ok"
    /\ inv.move_to_front = "Offset"
    /\ occupied_slots(inv.content) # {}
    /\ is_none(inv.content[Len(inv.content)])

\* The inventory and the result after k >= 1 successive use_item(idx) calls.
RECURSIVE use_item_times(_, _, _)
use_item_times(self, idx, k) ==
    IF k = 1 THEN use_item(self, idx)
    ELSE use_item(use_item_times(self, idx, k - 1).inv, idx)

\* C22: for a stack with durability Some(d), the k-th of d successive use_item
\* calls on its slot returns Ok(Some(d - k)) and leaves the stack in place with
\* durability d - k and its quantity unchanged; call d + 1 returns ItemDestroyed.
C22_UseItemCountsDown ==
    \A idx \in Indices(inv) :
        (occupied_at(inv.content, idx) /\ is_some(unwrap(inv.content[idx + 1]).durability)) =>
            LET ii == unwrap(inv.content[idx + 1])
                d  == unwrap(ii.durability)
            IN  /\ \A k \in 1..d :
                      LET r == use_item_times(inv, idx, k)
                      IN  /\ r.res = Ok(Some(d - k))
                          /\ r.inv = [inv EXCEPT !.content[idx + 1] =
                                        Some([ii EXCEPT !.durability = Some(d - k)])]
                /\ LET r == use_item_times(inv, idx, d + 1)
                   IN  r.res.tag = "Err" /\ r.res.err = "ItemDestroyed"

\* use_item has worn a stack of MaxQty units down to durability 0 without
\* destroying it.
C22_Witness ==
    /\ last.op = "use_item"
    /\ last.res.tag = "Ok"
    /\ \E i \in occupied_slots(inv.content) :
          /\ unwrap(inv.content[i]).durability = Some(0)
          /\ unwrap(inv.content[i]).quantity = MaxQty

\* C23: use_item on a stack with durability Some(0) returns ItemDestroyed carrying
\* a stack of the slot's key and full quantity; with move_to_front = None the
\* slot is Empty afterwards and every other slot is unchanged.
C23_UseItemDestroys ==
    \A idx \in Indices(inv) :
        (occupied_at(inv.content, idx) /\ unwrap(inv.content[idx + 1]).durability = Some(0)) =>
            LET ii == unwrap(inv.content[idx + 1])
                r  == use_item(inv, idx)
            IN  /\ r.res.tag = "Err"
                /\ r.res.err = "ItemDestroyed"
                /\ r.res.val.key = ii.key
                /\ r.res.val.quantity = ii.quantity
                /\ inv.move_to_front = "None" =>
                      r.inv = [inv EXCEPT !.content[idx + 1] = NONE]

\* use_item has destroyed a stack of an inventory that does not compact: a slot
\* is Empty and another stack is still held.
C23_Witness ==
    /\ last.op = "use_item"
    /\ last.res.err = "ItemDestroyed"
    /\ inv.move_to_front = "None"
    /\ occupied_slots(inv.content) # {}
    /\ first_hole(inv.content) # 0

\* The inventory and the result after k >= 1 successive consume(idx) calls.
RECURSIVE consume_times(_, _, _)
consume_times(self, idx, k) ==
    IF k = 1 THEN consume(self, idx)
    ELSE consume(consume_times(self, idx, k - 1).inv, idx)

\* C24: for a stack of n >= 1 units, the k-th of n - 1 successive consume calls on
\* its slot returns Ok(n - k) and leaves n - k units in place; call n returns
\* StackConsumed and the slot is removed under move_to_front; consume on an Empty
\* or missing slot returns SlotEmpty and changes nothing.
C24_ConsumeCountsDown ==
    \A idx \in Indices(inv) :
        IF occupied_at(inv.content, idx)
        THEN LET ii == unwrap(inv.content[idx + 1])
                 n  == ii.quantity
             IN  n >= 1 =>
                   /\ \A k \in 1..(n - 1) :
                         LET r == consume_times(inv, idx, k)
                         IN  /\ r.res = Ok(n - k)
                             /\ r.inv = [inv EXCEPT !.content[idx + 1] =
                                           Some([ii EXCEPT !.quantity = n - k])]
                   /\ LET r == consume_times(inv, idx, n)
                      IN  /\ r.res.tag = "Err"
                          /\ r.res.err = "StackConsumed"
                          /\ r.inv.content = after_removal(inv.content, idx, inv.move_to_front)
        ELSE consume(inv, idx) = [inv |-> inv, res |-> Err("SlotEmpty")]

\* consume has used up a stack of an inventory that still holds a stack.
C24_Witness ==
    /\ last.op = "consume"
    /\ last.res.err = "StackConsumed"
    /\ occupied_slots(inv.content) # {}
    /\ first_hole(inv.content) # 0

\* The calls that remove the whole stack at index idx of self, each with the
\* inventory it leaves: delete of the full quantity, delete_stack, consume of the
\* last unit, use_item at durability 0.
whole_removals(self, idx) ==
    LET ii == unwrap(self.content[idx + 1])
    IN  {delete(self, idx, ii.quantity).inv, delete_stack(self, idx).inv}
        \cup (IF ii.quantity = 1 THEN {consume(self, idx).inv} ELSE {})
        \cup (IF ii.durability = Some(0) THEN {use_item(self, idx).inv} ELSE {})

\* Every Empty slot of content lies after every Occupied slot.
holes_at_tail(content) ==
    \A i \in 1..Len(content) : \A j \in 1..Len(content) :
        (i < j /\ is_none(content[i])) => is_none(content[j])

\* The stacks of content in slot order, the Empty slots left out.
occupied_seq(content) == SelectSeq(content, is_some)

\* C25: with move_to_front = TakeLast, removing the whole stack at index i (by
\* delete, delete_stack, consume or use_item) keeps content.len(), makes the last
\* slot Empty, puts at index i what the last slot held (when i is not the last
\* slot itself) and leaves every other slot unchanged.
C25_TakeLastRemoval ==
    \A idx \in Indices(inv) :
        (inv.move_to_front = "TakeLast" /\ occupied_at(inv.content, idx)) =>
            \A after \in whole_removals(inv, idx) :
                LET n == Len(inv.content)
                IN  /\ Len(after.content) = n
                    /\ is_none(after.content[n])
                    /\ idx + 1 # n => after.content[idx + 1] = inv.content[n]
                    /\ \A j \in 1..(n - 1) :
                          j # idx + 1 => after.content[j] = inv.content[j]

\* delete_stack has removed a stack of a full TakeLast inventory of MaxSize slots:
\* the last slot is Empty and the others are Occupied.
C25_Witness ==
    /\ inv.move_to_front = "TakeLast"
    /\ last.op = "delete_stack"
    /\ last.res.tag = "Ok"
    /\ Len(inv.content) = MaxSize
    /\ occupied_slots(inv.content) = 1..(MaxSize - 1)

\* C26: with move_to_front = TakeLast, if every Empty slot lies after every
\* Occupied slot before a slot removal, the same holds after it, whatever the
\* removed index and the number of trailing Empty slots.
\* (swap_remove takes the last slot of content, Empty or not: removing slot 0 of
\* [a, b, Empty] gives [Empty, b, Empty].)
C26_TakeLastHolesAtTail ==
    \A idx \in Indices(inv) :
        (/\ inv.move_to_front = "TakeLast"
         /\ occupied_at(inv.content, idx)
         /\ holes_at_tail(inv.content))
        => \A after \in whole_removals(inv, idx) : holes_at_tail(after.content)

\* C27: with move_to_front = Offset, removing the whole stack at index i shifts
\* every later slot left by one and appends an Empty slot: content.len() is kept,
\* the slots before i are unchanged, the remaining stacks keep their order, and
\* Empty slots that were only at the tail are only at the tail afterwards.
C27_OffsetRemoval ==
    \A idx \in Indices(inv) :
        (inv.move_to_front = "Offset" /\ occupied_at(inv.content, idx)) =>
            \A after \in whole_removals(inv, idx) :
                LET n    == Len(inv.content)
                    rank == Cardinality({j \in occupied_slots(inv.content) : j <= idx + 1})
                    pre  == occupied_seq(inv.content)
                IN  /\ Len(after.content) = n
                    /\ is_none(after.content[n])
                    /\ \A j \in 1..idx : after.content[j] = inv.content[j]
                    /\ \A j \in (idx + 1)..(n - 1) : after.content[j] = inv.content[j + 1]
                    /\ occupied_seq(after.content) =
                          SubSeq(pre, 1, rank - 1) \o SubSeq(pre, rank + 1, Len(pre))
                    /\ holes_at_tail(inv.content) => holes_at_tail(after.content)

\* consume has used up a stack of a full Offset inventory of MaxSize slots: the
\* last slot is Empty and the others are Occupied.
C27_Witness ==
    /\ inv.move_to_front = "Offset"
    /\ last.op = "consume"
    /\ last.res.err = "StackConsumed"
    /\ Len(inv.content) = MaxSize
    /\ occupied_slots(inv.content) = 1..(MaxSize - 1)

\* C28: with move_to_front = None, removing the whole stack at index i makes slot
\* i Empty and leaves every other slot unchanged; and an Empty slot becomes
\* Occupied only by a call that inserts into it: insert, insert_into, or
\* move_item / move_stack, whose second step is insert_into.
C28_NoneRemovalInPlace ==
    /\ [](\A idx \in Indices(inv) :
            (inv.move_to_front = "None" /\ occupied_at(inv.content, idx)) =>
                \A after \in whole_removals(inv, idx) :
                    after = [inv EXCEPT !.content[idx + 1] = NONE])
    /\ [][\A i \in 1..Len(inv.content) :
            (/\ inv.move_to_front = "None"
             /\ is_none(inv.content[i])
             /\ is_some(inv'.content[i]))
            => last'.op \in {"insert", "insert_into", "move_item", "move_stack"}]_vars

\* delete has emptied the first slot of an inventory that does not compact, and
\* the later slots still hold their stacks.
C28_Witness ==
    /\ inv.move_to_front = "None"
    /\ last.op = "delete"
    /\ last.res.tag = "Ok"
    /\ Len(inv.content) = MaxSize
    /\ occupied_slots(inv.content) = 2..MaxSize

C30_InsertDeleteStackRoundTrip ==
    \A item \in Supplied :
        LET r    == insert(inv, item, Catalog)
            pre  == inv.content
            post == r.inv.content
        IN  \A j \in occupied_slots(post) \ occupied_slots(pre) :
                (/\ r.res.tag = "Ok"
                 /\ post[j] = Some(item)
                 /\ \A i \in occupied_slots(pre) : post[i] = pre[i])
                =>
                LET d == delete_stack(r.inv, j - 1)
                IN  /\ d.res.tag = "Ok"
                    /\ d.res.val.key = item.key
                    /\ d.res.val.quantity = item.quantity
                    /\ occupied_slots(d.inv.content) = occupied_slots(pre)
                    /\ \A i \in occupied_slots(pre) : d.inv.content[i] = pre[i]
                    /\ occupied_seq(d.inv.content) = occupied_seq(pre)

\* An insert has put a stack into a slot of its own: the inventory holds one unit
\* of key 1, which no merge produces next to nothing else of key 1, and a stack
\* of key 2.
C30_Witness ==
    /\ last.op = "insert"
    /\ last.res.tag = "Ok"
    /\ Cardinality(occupied_slots(inv.content)) = 2
    /\ \E i \in occupied_slots(inv.content) :
          unwrap(inv.content[i]).key = 1 /\ unwrap(inv.content[i]).quantity = 1
    /\ \E i \in occupied_slots(inv.content) : unwrap(inv.content[i]).key = 2

\* C31: for every unlockable held, after lock() is_unlocked() is false and
\* try_get() returns None; after unlock() is_unlocked() is true and try_get()
\* returns the inner value; a set() after either changes neither answer but the
\* value returned.
\* (lock() writes is_unlocked = true and unlock() writes is_unlocked = false.)
C31_LockLocksUnlockUnlocks ==
    \A id \in DOMAIN unlockables :
        LET u == unlockables[id]
        IN  /\ ~is_unlocked(lock(u))
            /\ try_get(lock(u)) = NONE
            /\ is_unlocked(unlock(u))
            /\ try_get(unlock(u)) = Some(u.inner)
            /\ \A new \in InnerValues :
                  /\ try_get(set(lock(u), new)) = NONE
                  /\ try_get(set(unlock(u), new)) = Some(new)

\* The units of key held by the slots of content before slot i (1-based).
units_before(content, key, i) ==
    Cardinality(UNION {{<<j, u>> : u \in 1..unwrap(content[j]).quantity}
                       : j \in {x \in occupied_slots(content) :
                                   x < i /\ unwrap(content[x]).key = key}})

\* C32: with move_to_front = None, a successful delete_key(key, q) drains the
\* stacks of key in increasing slot order: a slot of key is touched when the slots
\* of key before it hold fewer than q units together (for q = 0, when it is the
\* first); a touched slot that holds no more than is still needed is emptied, the
\* last touched slot keeps its surplus, and every other slot is unchanged.
C32_DeleteKeyDrainsInOrder ==
    \A key \in Keys : \A q \in Quantities :
        LET r    == delete_key(inv, key, q)
            pre  == inv.content
            post == r.inv.content
            S    == {i \in occupied_slots(pre) : unwrap(pre[i]).key = key}
        IN  (inv.move_to_front = "None" /\ r.res.tag = "Ok") =>
              /\ Len(post) = Len(pre)
              /\ \A i \in (1..Len(pre)) \ S : post[i] = pre[i]
              /\ \A i \in S :
                    LET have    == unwrap(pre[i]).quantity
                        needed  == q - units_before(pre, key, i)
                        touched == \/ needed > 0
                                   \/ (q = 0 /\ \A j \in S : i <= j)
                    IN  IF ~touched THEN post[i] = pre[i]
                        ELSE IF have > needed
                             THEN post[i] = Some([unwrap(pre[i]) EXCEPT !.quantity = have - needed])
                             ELSE post[i] = NONE

\* delete_key has emptied the first stack of key 1 and taken part of the second:
\* the first slot is Empty, the second holds one unit, the third a full stack.
C32_Witness ==
    /\ inv.move_to_front = "None"
    /\ last.op = "delete_key"
    /\ last.res.tag = "Ok"
    /\ Len(inv.content) = MaxSize
    /\ is_none(inv.content[1])
    /\ \A i \in 2..MaxSize : is_some(inv.content[i]) /\ unwrap(inv.content[i]).key = 1
    /\ unwrap(inv.content[2]).quantity = 1
    /\ unwrap(inv.content[MaxSize]).quantity = MaxStack

\* C33: whenever first_empty_slot() returns Some(i), slot i exists and is Empty,
\* and with move_to_front = None i is the smallest index of an Empty slot;
\* whenever it returns None no slot is Empty; under every sizing mode and every
\* move_to_front mode.
\* (Under TakeLast and Offset it returns content.len(), an index past the end,
\* when content.len() differs from the maximum, and None otherwise, whatever the
\* slots hold.)
C33_FirstEmptySlot ==
    LET slot == first_empty_slot(inv)
    IN  IF is_some(slot)
        THEN /\ unwrap(slot) < Len(inv.content)
             /\ is_none(inv.content[unwrap(slot) + 1])
             /\ inv.move_to_front = "None" => unwrap(slot) + 1 = first_hole(inv.content)
        ELSE first_hole(inv.content) = 0

\* C34: transfer_stack and move_stack move the whole quantity of the source slot:
\* on success the source stack has been removed from from_idx under
\* move_to_front, and the target slot holds a stack of the source's key and
\* durability with the full quantity, nothing else changed; on an Empty or
\* missing source slot both return SlotEmpty and change nothing.
C34_StackMovesWhole ==
    \A from_idx \in Indices(inv) :
        LET gone == after_removal(inv.content, from_idx, inv.move_to_front)
            ii   == unwrap(inv.content[from_idx + 1])
            full == [key |-> ii.key, quantity |-> ii.quantity,
                     durability |-> ii.durability, user_data |-> DefaultUserData]
        IN  /\ \A to_idx \in Indices(target) :
                  LET t == transfer_stack(inv, from_idx, target, to_idx)
                  IN  IF occupied_at(inv.content, from_idx)
                      THEN t.res.tag = "Ok" =>
                              /\ t.inv.content = gone
                              /\ t.target.content =
                                    [target.content EXCEPT ![to_idx + 1] = Some(full)]
                      ELSE t = [inv |-> inv, target |-> target, res |-> Err("SlotEmpty")]
            /\ \A to_idx \in Indices(inv) :
                  LET m == move_stack(inv, from_idx, to_idx)
                  IN  IF occupied_at(inv.content, from_idx)
                      THEN m.res.tag = "Ok" =>
                              m.inv.content = [gone EXCEPT ![to_idx + 1] = Some(full)]
                      ELSE m = [inv |-> inv, res |-> Err("SlotEmpty")]

\* transfer_stack has moved a stack of MaxQty units: the source holds nothing and
\* the target slot holds the MaxQty units.
C34_Witness ==
    /\ last.op = "transfer_stack"
    /\ last.res.tag = "Ok"
    /\ occupied_slots(inv.content) = {}
    /\ is_some(target.content[1])
    /\ unwrap(target.content[1]).quantity = MaxQty

\* C38: in transfer, transfer_stack, move_item and move_stack the source step is
\* decided first: when the source slot is Empty or missing, or holds fewer units
\* than requested, the call returns SlotEmpty or NotEnoughQuantity, both
\* inventories are unchanged and nothing faults, whatever to_idx is: past the
\* end, or the index of an Occupied slot.
C38_SourceDecidedFirst ==
    \A from_idx \in Indices(inv) :
        LET empty == ~occupied_at(inv.content, from_idx)
            short(q) == /\ occupied_at(inv.content, from_idx)
                        /\ unwrap(inv.content[from_idx + 1]).quantity < q
        IN  /\ \A to_idx \in Indices(target) :
                  /\ empty => transfer_stack(inv, from_idx, target, to_idx)
                                = [inv |-> inv, target |-> target, res |-> Err("SlotEmpty")]
                  /\ \A q \in Quantities :
                        LET t == transfer(inv, from_idx, target, to_idx, q)
                        IN  /\ empty => t = [inv |-> inv, target |-> target,
                                             res |-> Err("SlotEmpty")]
                            /\ short(q) => t = [inv |-> inv, target |-> target,
                                                res |-> Err("NotEnoughQuantity")]
            /\ \A to_idx \in Indices(inv) :
                  /\ empty => move_stack(inv, from_idx, to_idx)
                                = [inv |-> inv, res |-> Err("SlotEmpty")]
                  /\ \A q \in Quantities :
                        LET m == move_item(inv, from_idx, to_idx, q)
                        IN  /\ empty => m = [inv |-> inv, res |-> Err("SlotEmpty")]
                            /\ short(q) => m = [inv |-> inv, res |-> Err("NotEnoughQuantity")]

\* transfer has returned NotEnoughQuantity while the target slot was Occupied: the
\* source still holds its stack and the target its own.
C38_Witness ==
    /\ last.op = "transfer"
    /\ last.res.err = "NotEnoughQuantity"
    /\ occupied_slots(inv.content) # {}
    /\ is_some(target.content[1])

\* The ItemError variants that are declared and reserved.
ReservedErrors ==
    {"SlotRestricted", "StackOverflow", "InventoryOverflow", "LockedOriginSlot",
     "LockedRemoteSlot"}

\* The errors of every call a caller can make on self with the supplied stacks.
call_errors(self) ==
    UNION {{delete_stack(self, idx).res.err, consume(self, idx).res.err, use_item(self, idx).res.err}
           \cup {delete(self, idx, q).res.err : q \in Quantities}
           \cup {insert_into(self, idx, item).res.err : item \in Supplied}
           \cup {move_stack(self, idx, to_idx).res.err : to_idx \in Indices(self)}
           \cup {move_item(self, idx, to_idx, q).res.err
                    : to_idx \in Indices(self), q \in Quantities}
           \cup {transfer_stack(self, idx, self, to_idx).res.err : to_idx \in Indices(self)}
           \cup {transfer(self, idx, self, to_idx, q).res.err
                    : to_idx \in Indices(self), q \in Quantities}
           : idx \in Indices(self)}
    \cup {insert(self, item, Catalog).res.err : item \in Supplied}
    \cup {delete_key(self, key, q).res.err : key \in Keys, q \in Quantities}

\* C35: slot restrictions are not enforced and the reserved errors are never
\* produced: insert_into returns Ok on every existing Empty slot, whatever
\* restriction the slot carries and whatever the item type of the stack, and no
\* call returns SlotRestricted, StackOverflow, InventoryOverflow, LockedOriginSlot
\* or LockedRemoteSlot.
C35_RestrictionsNotEnforced ==
    /\ last.res.err \notin ReservedErrors
    /\ call_errors(inv) \cap ReservedErrors = {}
    /\ \A idx \in Indices(inv) : \A item \in Supplied :
          (idx < Len(inv.content) /\ is_none(inv.content[idx + 1])) =>
              LET r == insert_into(inv, idx, item)
              IN  /\ r.res.tag = "Ok"
                  /\ r.inv.content[idx + 1] = Some(item)
                  /\ r.inv.slot_restriction = inv.slot_restriction

\* insert_into has put a Consumable stack into a slot restricted to Equipment.
C35_Witness ==
    /\ last.op = "insert_into"
    /\ last.res.tag = "Ok"
    /\ inv.move_to_front = "None"
    /\ \E i \in occupied_slots(inv.content) :
          /\ inv.slot_restriction[i] = Some("Equipment")
          /\ unwrap(inv.content[i]).key = 1
          /\ ~can_insert_into("Equipment", Catalog[1].slot_type)

\* C36: use_item on a stack with durability None returns Ok(None) and changes
\* nothing; whenever use_item returns Ok, the inventory differs from the one
\* before at most in the durability of the stack at idx.
C36_UseItemFrame ==
    \A idx \in Indices(inv) :
        LET r == use_item(inv, idx)
        IN  /\ (occupied_at(inv.content, idx)
                  /\ unwrap(inv.content[idx + 1]).durability = NONE) =>
                 r = [inv |-> inv, res |-> Ok(NONE)]
            /\ r.res.tag = "Ok" =>
                 /\ occupied_at(inv.content, idx)
                 /\ occupied_at(r.inv.content, idx)
                 /\ r.inv = [inv EXCEPT !.content[idx + 1][1].durability =
                                          unwrap(r.inv.content[idx + 1]).durability]

\* use_item has returned Ok on an inventory all of whose stacks are without
\* durability tracking and one of which holds MaxQty units.
C36_Witness ==
    /\ last.op = "use_item"
    /\ last.res.tag = "Ok"
    /\ occupied_slots(inv.content) # {}
    /\ \A i \in occupied_slots(inv.content) : unwrap(inv.content[i]).durability = NONE
    /\ \E i \in occupied_slots(inv.content) : unwrap(inv.content[i]).quantity = MaxQty

C39_CarriedUserDataIsDefault ==
    \A idx \in Indices(inv) : \A q \in Quantities :
        occupied_at(inv.content, idx) =>
            LET ii      == unwrap(inv.content[idx + 1])
                carried == [key |-> ii.key, quantity |-> q,
                            durability |-> ii.durability,
                            user_data |-> DefaultUserData]
                d       == delete(inv, idx, q)
            IN  /\ d.res.tag = "Ok" =>
                     /\ d.res.val = carried
                     /\ q < ii.quantity =>
                           unwrap(d.inv.content[idx + 1]).user_data = ii.user_data
                /\ \A to_idx \in Indices(target) :
                      LET t == transfer(inv, idx, target, to_idx, q)
                      IN  t.res.tag = "Ok" =>
                            /\ t.target.content[to_idx + 1] = Some(carried)
                            /\ t.inv = d.inv
                /\ \A to_idx \in Indices(target) :
                      LET t == transfer_stack(inv, idx, target, to_idx)
                      IN  t.res.tag = "Ok" =>
                            t.target.content[to_idx + 1] =
                               Some([carried EXCEPT !.quantity = ii.quantity])
                /\ \A to_idx \in Indices(inv) :
                      LET m == move_item(inv, idx, to_idx, q)
                      IN  m.res.tag = "Ok" =>
                            m.inv.content[to_idx + 1] = Some(carried)

\* transfer has taken part of a stack with non-default user data and a durability:
\* the rest stays in the one-slot source with its user data, and the target holds
\* a stack of the same key and durability with the default user data.
C39_Witness ==
    /\ last.op = "transfer"
    /\ last.res.tag = "Ok"
    /\ Len(inv.content) = 1
    /\ is_some(inv.content[1])
    /\ is_some(target.content[1])
    /\ LET src == unwrap(inv.content[1])
           dst == unwrap(target.content[1])
       IN  /\ src.user_data = OtherUserData
           /\ src.durability = Some(1)
           /\ dst.user_data = DefaultUserData
           /\ dst.key = src.key
           /\ dst.durability = Some(1)

\* C40: the stack StackConsumed carries has the key of the consumed slot and
\* quantity 0, the unit being counted off before the stack is taken out; the
\* stack ItemDestroyed carries has the key and the whole quantity the slot held
\* before the call.
C40_CarriedQuantities ==
    \A idx \in Indices(inv) :
        LET c == consume(inv, idx)
            u == use_item(inv, idx)
        IN  /\ (c.res.tag = "Err" /\ c.res.err = "StackConsumed") =>
                 /\ occupied_at(inv.content, idx)
                 /\ c.res.val.key = unwrap(inv.content[idx + 1]).key
                 /\ c.res.val.quantity = 0
            /\ (u.res.tag = "Err" /\ u.res.err = "ItemDestroyed") =>
                 /\ occupied_at(inv.content, idx)
                 /\ u.res.val.key = unwrap(inv.content[idx + 1]).key
                 /\ u.res.val.quantity = unwrap(inv.content[idx + 1]).quantity
                 /\ u.res.val.quantity >= 1

\* consume has used up the only stack of the inventory: every slot is Empty.
C40_Witness ==
    /\ last.op = "consume"
    /\ last.res.tag = "Err"
    /\ last.res.err = "StackConsumed"
    /\ Len(inv.content) >= 1
    /\ occupied_slots(inv.content) = {}

====
